---- MODULE Spec2Model ----
(***************************************************************************)
(* Model of the NAVY dashboard scripts.                                    *)
(*   Navy_Dashboard1.py : cached client, build_optimized_query,            *)
(*                        stream_data_to_csv, processing block             *)
(*   Navy_Dashboard.py  : client per action, list(find), DictWriter        *)
(* One script run (a Streamlit rerun started by a button press) is a       *)
(* sequence of steps tracked by pc; the store (pymongo) may raise at every *)
(* store-facing call.                                                      *)
(* The PaginationController of spec section 4.5 has no source file; it is  *)
(* modelled from the spec in the last part of the module.                  *)
(***************************************************************************)
EXTENDS Integers, Sequences, FiniteSets, TLC

VARIABLES
  script,            \* which script is deployed
  collection,        \* db['iotdb']['navy'] : sequence of documents
  start_date, start_time, end_date, end_time,
  check_btn, fetch_btn, performance_mode,
  pc,                \* position of the running script
  cache,             \* st.cache_resource entry of get_mongo_client (0 = empty)
  client,            \* client handle of the current run (0 = none)
  clientsCreated,    \* number of MongoClient objects constructed so far
  query,
  estimated_count,
  cursorDocs, cursorPos, cursorOpened, cursorClosed,
  buffer, writer, headers, headers_written, count, batch,
  csv_data, ret_count,
  documents, file,
  ui,                \* elements rendered by the current run
  storeLog,          \* store accesses made by the current run
  storeError,        \* a store-level error was raised in the current run
  streamedAtError,   \* records streamed when the store error was raised
  escaped,           \* an exception left the script uncaught
  pstate, pquery, current_page, total_records, total_pages

inputVars  == <<start_date, start_time, end_date, end_time, check_btn, fetch_btn, performance_mode>>
clientVars == <<cache, client, clientsCreated>>
cursorVars == <<cursorDocs, cursorPos, cursorOpened, cursorClosed>>
writerVars == <<buffer, writer, headers, headers_written, count, batch>>
resultVars == <<csv_data, ret_count>>
oldVars    == <<documents, file>>
obsVars    == <<ui, storeLog, storeError, streamedAtError, escaped>>
pageVars   == <<pstate, pquery, current_page, total_records, total_pages>>
dashVars   == <<script, collection, inputVars, pc, clientVars, query, estimated_count,
                cursorVars, writerVars, resultVars, oldVars, obsVars>>
vars       == <<dashVars, pageVars>>

----------------------------------------------------------------------------
(* Bounds *)
MaxDate    == 2      \* dates offered by the date inputs: 1..MaxDate
MaxTime    == 1      \* times offered by the time inputs: 0..MaxTime
MaxClients == 2      \* runs of Navy_Dashboard.py stop once this many clients exist
MaxBulk    == 2001   \* largest result set of the bulk export runs
MaxTotal   == 250    \* largest count resolved by the pagination controller

(* Program constants *)
batch_size == 1000
page_size  == 100

Dates == 1..MaxDate
Times == 0..MaxTime
Scripts == {"Navy_Dashboard1", "Navy_Dashboard"}
Modes == {"Standard (Streaming)", "Auto"}

----------------------------------------------------------------------------
(* Values and documents.  A value is [kind, v]; a document is an ordered   *)
(* sequence of [key, val] pairs, as a Python dict / BSON document.         *)

ObjectId(n) == [kind |-> "ObjectId", v |-> <<n>>]
IntVal(n)   == [kind |-> "int", v |-> <<n>>]
StrVal(s)   == [kind |-> "str", v |-> s]
restval     == StrVal(<<>>)

\* str(doc["_id"])
str(x) == [kind |-> "str", v |-> x.v]

\* datetime.combine(d, t)
combine(d, t) == [date |-> d, time |-> t]

\* datetime comparison a >= b
DtGeq(a, b) == \/ a.date > b.date
               \/ a.date = b.date /\ a.time >= b.time

\* datetime.isoformat(): fixed-width text, one position per component
isoformat(dt) == <<dt.date, dt.time>>

keys(doc) == [i \in 1..Len(doc) |-> doc[i].key]
HasKey(doc, k) == \E i \in 1..Len(doc) : doc[i].key = k
Get(doc, k) == doc[CHOOSE i \in 1..Len(doc) : doc[i].key = k].val
SetKey(doc, k, x) == [i \in 1..Len(doc) |-> IF doc[i].key = k THEN [key |-> k, val |-> x] ELSE doc[i]]
InSeq(x, s) == \E i \in 1..Len(s) : s[i] = x

F(k, x) == [key |-> k, val |-> x]
TsVal(d, t) == StrVal(isoformat(combine(d, t)))

\* Telemetry samples with a common field set
Sample(n, d, t, ss) == <<F("_id", ObjectId(n)), F("timestamp", TsVal(d, t)), F("Genset_Run_SS", IntVal(ss))>>

CollUniform ==
  << Sample(1, 1, 0, 5), Sample(2, 1, 1, 5), Sample(3, 2, 0, 0),
     Sample(4, 2, 0, 1), Sample(5, 2, 1, 2), Sample(6, 2, 1, 5) >>

\* Samples whose field sets differ
CollMixed ==
  << Sample(1, 1, 0, 1),
     <<F("_id", ObjectId(2)), F("timestamp", TsVal(1, 1))>>,
     <<F("_id", ObjectId(3)), F("timestamp", TsVal(2, 0)), F("Genset_Run_SS", IntVal(0)), F("extra", IntVal(7))>>,
     <<F("_id", ObjectId(4)), F("Genset_Run_SS", IntVal(2)), F("timestamp", TsVal(2, 1))>> >>

Collections == {CollUniform, CollMixed}

----------------------------------------------------------------------------
(* The store: range predicates over documents (pymongo find / count).      *)

\* text / number order used by the store: lexicographic on positions
LexLess(a, b) ==
  \E i \in 1..Len(b) :
     /\ \A j \in 1..(i - 1) : j <= Len(a) /\ a[j] = b[j]
     /\ \/ i = Len(a) + 1
        \/ i <= Len(a) /\ a[i] < b[i]

Cond(op, arg) == [op |-> op, arg |-> arg]

\* one operator of a range predicate; values of another type never match
Holds(x, c) ==
  /\ x.kind = c.arg.kind
  /\ CASE c.op = "$gte" -> ~LexLess(x.v, c.arg.v)
       [] c.op = "$lte" -> ~LexLess(c.arg.v, x.v)
       [] c.op = "$gt"  -> LexLess(c.arg.v, x.v)
       [] c.op = "$lt"  -> LexLess(x.v, c.arg.v)

\* a document matches when every queried field is present and satisfies
\* every operator
Matches(doc, q) ==
  \A i \in 1..Len(q) :
     /\ HasKey(doc, q[i].key)
     /\ \A j \in 1..Len(q[i].val) : Holds(Get(doc, q[i].key), q[i].val[j])

find(coll, q) == SelectSeq(coll, LAMBDA d : Matches(d, q))

count_documents(coll, q) == Len(find(coll, q))

----------------------------------------------------------------------------
(* Query construction *)

TimestampRange(s, e) ==
  F("timestamp", <<Cond("$gte", StrVal(isoformat(s))), Cond("$lte", StrVal(isoformat(e)))>>)

build_optimized_query_band16(s, e, is_check) ==
  IF is_check
    THEN <<TimestampRange(s, e), F("Genset_Run_SS", <<Cond("$gte", IntVal(1)), Cond("$lte", IntVal(6))>>)>>
    ELSE <<TimestampRange(s, e)>>

build_optimized_query(s, e, is_check) ==
  IF is_check
    THEN <<TimestampRange(s, e), F("Genset_Run_SS", <<Cond("$gte", IntVal(0)), Cond("$lte", IntVal(2))>>)>>
    ELSE <<TimestampRange(s, e)>>

\* Navy_Dashboard.py builds the two queries inline
check_query(s, e) ==
  <<TimestampRange(s, e), F("Genset_Run_SS", <<Cond("$gte", IntVal(0)), Cond("$lte", IntVal(2))>>)>>

fetch_query(s, e) == <<TimestampRange(s, e)>>

----------------------------------------------------------------------------
(* csv.DictWriter(buffer, fieldnames=headers): extrasaction = "raise",     *)
(* restval = ""                                                            *)

HeaderLine(fieldnames) == [row |-> "header", cells |-> fieldnames]
DataLine(cells) == [row |-> "data", cells |-> cells]

\* rowdict.keys() - fieldnames is not empty
WrongFields(fieldnames, rowdict) ==
  \E i \in 1..Len(rowdict) : ~InSeq(rowdict[i].key, fieldnames)

\* [rowdict.get(key, restval) for key in fieldnames]
DictToList(fieldnames, rowdict) ==
  [i \in 1..Len(fieldnames) |->
     IF HasKey(rowdict, fieldnames[i]) THEN Get(rowdict, fieldnames[i]) ELSE restval]

\* index of the first row that makes _dict_to_list raise ValueError
FirstWrong(fieldnames, rows) ==
  IF \E i \in 1..Len(rows) : WrongFields(fieldnames, rows[i])
    THEN CHOOSE i \in 1..Len(rows) :
           /\ WrongFields(fieldnames, rows[i])
           /\ \A j \in 1..(i - 1) : ~WrongFields(fieldnames, rows[j])
    ELSE Len(rows) + 1

\* writer.writerows(rows): rows are formatted one by one; the rows before
\* a raising one have reached the sink
writerows(sink, fieldnames, rows) ==
  LET k == FirstWrong(fieldnames, rows)
  IN [sink   |-> sink \o [i \in 1..(k - 1) |-> DataLine(DictToList(fieldnames, rows[i]))],
      raised |-> k <= Len(rows)]

writeheader(sink, fieldnames) == Append(sink, HeaderLine(fieldnames))

\* doc["_id"] = str(doc["_id"])
Stringify(doc) == SetKey(doc, "_id", str(Get(doc, "_id")))

----------------------------------------------------------------------------
(* Initial state: the script is deployed, no button pressed yet.           *)

NoQuery == <<>>

Idle ==
  /\ start_date = 1 /\ start_time = 0 /\ end_date = 1 /\ end_time = 0
  /\ check_btn = FALSE /\ fetch_btn = FALSE
  /\ performance_mode = "Standard (Streaming)"
  /\ pc = "idle"
  /\ cache = 0 /\ client = 0 /\ clientsCreated = 0
  /\ query = NoQuery /\ estimated_count = 0
  /\ cursorDocs = <<>> /\ cursorPos = 0 /\ cursorOpened = FALSE /\ cursorClosed = FALSE
  /\ buffer = <<>> /\ writer = FALSE /\ headers = <<>> /\ headers_written = FALSE
  /\ count = 0 /\ batch = <<>>
  /\ csv_data = <<>> /\ ret_count = 0
  /\ documents = <<>> /\ file = <<>>
  /\ ui = {} /\ storeLog = {} /\ storeError = FALSE /\ streamedAtError = 0
  /\ escaped = FALSE

PageIdle ==
  /\ pstate = "Idle" /\ pquery = NoQuery /\ current_page = 0
  /\ total_records = 0 /\ total_pages = 0

Init ==
  /\ script \in Scripts
  /\ collection \in Collections
  /\ Idle
  /\ PageIdle

----------------------------------------------------------------------------
(* The processing block of both scripts: validation of the inputs          *)

\* end_date < start_date is rejected, then start_datetime >= end_datetime
RangeValid_dateOnly(sd, st, ed, et) == ~(ed < sd)

RangeValid(sd, st, ed, et) ==
  /\ ~(ed < sd)
  /\ ~DtGeq(combine(sd, st), combine(ed, et))

ValidationMessage(sd, st, ed, et) ==
  IF ed < sd THEN {"error_end_date"} ELSE {"error_end_datetime"}

\* a rerun starts from fresh locals and an empty page
NewRun(sd, st, ed, et, chk, mode) ==
  /\ start_date' = sd /\ start_time' = st /\ end_date' = ed /\ end_time' = et
  /\ check_btn' = chk /\ fetch_btn' = ~chk
  /\ performance_mode' = mode
  /\ client' = 0
  /\ query' = NoQuery /\ estimated_count' = 0
  /\ cursorDocs' = <<>> /\ cursorPos' = 0 /\ cursorOpened' = FALSE /\ cursorClosed' = FALSE
  /\ buffer' = <<>> /\ writer' = FALSE /\ headers' = <<>> /\ headers_written' = FALSE
  /\ count' = 0 /\ batch' = <<>>
  /\ csv_data' = <<>> /\ ret_count' = 0
  /\ documents' = <<>> /\ file' = <<>>
  /\ storeLog' = {} /\ storeError' = FALSE /\ streamedAtError' = 0
  /\ escaped' = FALSE
  /\ UNCHANGED <<script, collection, cache, clientsCreated, pageVars>>

\* Navy_Dashboard1.py: a button press reruns the script
Processing1 ==
  /\ script = "Navy_Dashboard1"
  /\ pc = "idle"
  /\ \E sd \in Dates, st \in Times, ed \in Dates, et \in Times, chk \in BOOLEAN, mode \in Modes :
       /\ NewRun(sd, st, ed, et, chk, mode)
       /\ IF RangeValid(sd, st, ed, et)
            THEN ui' = {} /\ pc' = "connect"
            ELSE ui' = ValidationMessage(sd, st, ed, et) /\ pc' = "idle"

\* Navy_Dashboard.py: a button press reruns the script
Processing0 ==
  /\ script = "Navy_Dashboard"
  /\ pc = "idle"
  /\ clientsCreated < MaxClients
  /\ \E sd \in Dates, st \in Times, ed \in Dates, et \in Times, chk \in BOOLEAN :
       /\ NewRun(sd, st, ed, et, chk, "Standard (Streaming)")
       /\ IF RangeValid(sd, st, ed, et)
            THEN ui' = {} /\ pc' = "connect0"
            ELSE ui' = ValidationMessage(sd, st, ed, et) /\ pc' = "idle"

\* an exception nobody catches ends the run; the page shows the raw exception
Uncaught ==
  /\ escaped' = TRUE
  /\ ui' = ui \cup {"exception"}
  /\ pc' = "idle"

----------------------------------------------------------------------------
(* Navy_Dashboard1.py                                                      *)

\* @st.cache_resource get_mongo_client(): the cached client, or a new one
get_mongo_client ==
  IF cache # 0
    THEN /\ client' = cache
         /\ UNCHANGED <<cache, clientsCreated>>
    ELSE /\ clientsCreated' = clientsCreated + 1
         /\ cache' = clientsCreated + 1
         /\ client' = clientsCreated + 1

\* connect, build the query, choose the next step by performance mode
Connect1 ==
  /\ pc = "connect"
  /\ get_mongo_client
  /\ storeLog' = storeLog \cup {"client"}
  /\ query' = build_optimized_query(combine(start_date, start_time),
                                    combine(end_date, end_time), check_btn)
  /\ pc' = IF performance_mode = "Auto" THEN "count" ELSE "export"
  /\ UNCHANGED <<script, collection, inputVars, estimated_count, cursorVars, writerVars,
                 resultVars, oldVars, ui, storeError, streamedAtError, escaped, pageVars>>

\* MongoClient(...) raises inside get_mongo_client: nothing is cached
Connect1Raise ==
  /\ pc = "connect"
  /\ cache = 0
  /\ storeLog' = storeLog \cup {"client"}
  /\ storeError' = TRUE
  /\ Uncaught
  /\ UNCHANGED <<script, collection, inputVars, clientVars, query, estimated_count, cursorVars,
                 writerVars, resultVars, oldVars, streamedAtError, pageVars>>

\* Auto mode: estimated_count = collection.count_documents(query)
Count1 ==
  /\ pc = "count"
  /\ estimated_count' = count_documents(collection, query)
  /\ storeLog' = storeLog \cup {"count"}
  /\ pc' = "export"
  /\ UNCHANGED <<script, collection, inputVars, clientVars, query, cursorVars, writerVars,
                 resultVars, oldVars, ui, storeError, streamedAtError, escaped, pageVars>>

\* count_documents raises outside any try block
Count1Raise ==
  /\ pc = "count"
  /\ storeLog' = storeLog \cup {"count"}
  /\ storeError' = TRUE
  /\ Uncaught
  /\ UNCHANGED <<script, collection, inputVars, clientVars, query, estimated_count, cursorVars,
                 writerVars, resultVars, oldVars, streamedAtError, pageVars>>

\* stream_data_to_csv: locals, find(...).batch_size(...), hint(...)
OpenCursor1 ==
  /\ pc = "export"
  /\ buffer' = <<>> /\ writer' = FALSE /\ count' = 0 /\ headers_written' = FALSE
  /\ headers' = <<>> /\ batch' = <<>>
  /\ cursorDocs' = find(collection, query)
  /\ cursorPos' = 0
  /\ cursorOpened' = TRUE
  /\ cursorClosed' = FALSE
  /\ storeLog' = storeLog \cup {"find"}
  /\ pc' = "iterate"
  /\ UNCHANGED <<script, collection, inputVars, clientVars, query, estimated_count,
                 resultVars, oldVars, ui, storeError, streamedAtError, escaped, pageVars>>

\* find(...) raises before a cursor exists, or hint(...) raises on the
\* cursor just created; both land in the except branch
OpenCursor1Raise ==
  /\ pc = "export"
  /\ \E at \in {"find", "hint"} :
       /\ cursorOpened' = (at = "hint")
       /\ cursorClosed' = FALSE
  /\ buffer' = <<>> /\ writer' = FALSE /\ count' = 0 /\ headers_written' = FALSE
  /\ headers' = <<>> /\ batch' = <<>>
  /\ cursorDocs' = <<>> /\ cursorPos' = 0
  /\ storeLog' = storeLog \cup {"find"}
  /\ storeError' = TRUE
  /\ streamedAtError' = 0
  /\ pc' = "except"
  /\ UNCHANGED <<script, collection, inputVars, clientVars, query, estimated_count,
                 resultVars, oldVars, ui, escaped, pageVars>>

\* if len(batch) >= batch_size
FlushDue(b) == Len(b) >= batch_size

\* the locals of stream_data_to_csv that the loop changes
Locals ==
  [buffer |-> buffer, writer |-> writer, headers |-> headers,
   headers_written |-> headers_written, count |-> count, batch |-> batch,
   raised |-> FALSE]

\* the body of "for doc in cursor" for one document
LoopBody(st, d) ==
  LET doc  == Stringify(d)
      hdrs == IF st.headers_written THEN st.headers ELSE keys(doc)
      buf  == IF st.headers_written THEN st.buffer ELSE writeheader(st.buffer, hdrs)
      b    == Append(st.batch, doc)
      w    == writerows(buf, hdrs, b)
  IN IF FlushDue(b)
       THEN [buffer |-> w.sink, writer |-> TRUE, headers |-> hdrs, headers_written |-> TRUE,
             count |-> st.count + 1, batch |-> IF w.raised THEN b ELSE <<>>,
             raised |-> w.raised]
       ELSE [buffer |-> buf, writer |-> TRUE, headers |-> hdrs, headers_written |-> TRUE,
             count |-> st.count + 1, batch |-> b, raised |-> FALSE]

\* the loop over documents i..last of the cursor in cursor order, left early
\* by an exception; the range is halved to keep the evaluation shallow
RECURSIVE Loop(_, _, _, _)
Loop(st, docs, i, last) ==
  IF i > last \/ st.raised
    THEN st
    ELSE IF i = last
      THEN LoopBody(st, docs[i])
      ELSE LET mid == (i + last) \div 2
               fst == Loop(st, docs, i, mid)
           IN Loop(fst, docs, mid + 1, last)

\* documents the batch can still take before it is flushed
Room == IF FlushDue(batch) THEN 0 ELSE batch_size - Len(batch)

Least(a, b) == IF a < b THEN a ELSE b

SetLocals(st) ==
  /\ buffer' = st.buffer
  /\ writer' = st.writer
  /\ headers' = st.headers
  /\ headers_written' = st.headers_written
  /\ count' = st.count
  /\ batch' = st.batch

\* the loop runs until the batch is flushed or the cursor is exhausted
Iterate1 ==
  /\ pc = "iterate"
  /\ cursorPos < Len(cursorDocs)
  /\ LET last == Least(Len(cursorDocs), cursorPos + Room)
         st   == Loop(Locals, cursorDocs, cursorPos + 1, last)
     IN /\ SetLocals(st)
        /\ cursorPos' = cursorPos + (st.count - count)
        /\ pc' = IF st.raised THEN "except" ELSE "iterate"
  /\ UNCHANGED <<script, collection, inputVars, clientVars, query, estimated_count,
                 cursorDocs, cursorOpened, cursorClosed, resultVars, oldVars, obsVars, pageVars>>

\* the loop takes k more documents, none of them filling the batch, and
\* then the cursor raises a store error
Iterate1Raise ==
  /\ pc = "iterate"
  /\ \E k \in 0..Least(Len(cursorDocs) - cursorPos, Room - 1) :
       LET st == Loop(Locals, cursorDocs, cursorPos + 1, cursorPos + k)
       IN /\ SetLocals(st)
          /\ cursorPos' = cursorPos + k
          /\ streamedAtError' = st.count
  /\ storeError' = TRUE
  /\ pc' = "except"
  /\ UNCHANGED <<script, collection, inputVars, clientVars, query, estimated_count,
                 cursorDocs, cursorOpened, cursorClosed, resultVars, oldVars, ui, storeLog,
                 escaped, pageVars>>

\* if batch and writer
RemainderDue_never(b, w) == FALSE

RemainderDue(b, w) == b # <<>> /\ w

\* the cursor is exhausted: write the remaining batch, close, return
Finish1 ==
  /\ pc = "iterate"
  /\ cursorPos = Len(cursorDocs)
  /\ LET w == writerows(buffer, headers, batch)
     IN IF RemainderDue(batch, writer) /\ w.raised
          THEN /\ buffer' = w.sink
               /\ pc' = "except"
               /\ UNCHANGED <<cursorClosed, resultVars>>
          ELSE /\ buffer' = IF RemainderDue(batch, writer) THEN w.sink ELSE buffer
               /\ cursorClosed' = TRUE
               /\ csv_data' = buffer'
               /\ ret_count' = count
               /\ pc' = "render"
  /\ UNCHANGED <<script, collection, inputVars, clientVars, query, estimated_count,
                 cursorDocs, cursorPos, cursorOpened, writer, headers, headers_written,
                 count, batch, oldVars, obsVars, pageVars>>

\* what the except branch returns
ExceptReturn_partial(buf, n) == [csv_data |-> buf, count |-> n]

ExceptReturn(buf, n) == [csv_data |-> <<>>, count |-> 0]

\* except Exception as e: st.error(...); return "", 0
Except1 ==
  /\ pc = "except"
  /\ ui' = ui \cup {"database_error"}
  /\ csv_data' = ExceptReturn(buffer, count).csv_data
  /\ ret_count' = ExceptReturn(buffer, count).count
  /\ pc' = "render"
  /\ UNCHANGED <<script, collection, inputVars, clientVars, query, estimated_count,
                 cursorVars, writerVars, oldVars, storeLog, storeError, streamedAtError,
                 escaped, pageVars>>

\* if count > 0: download button and success, else the warning
Render1 ==
  /\ pc = "render"
  /\ ui' = ui \cup (IF ret_count > 0 THEN {"download", "success"} ELSE {"no_data"})
  /\ pc' = "idle"
  /\ UNCHANGED <<script, collection, inputVars, clientVars, query, estimated_count,
                 cursorVars, writerVars, resultVars, oldVars, storeLog, storeError,
                 streamedAtError, escaped, pageVars>>

----------------------------------------------------------------------------
(* Navy_Dashboard.py                                                       *)

\* client = MongoClient(Mongo_uri): a new client in every run
Connect0 ==
  /\ pc = "connect0"
  /\ clientsCreated' = clientsCreated + 1
  /\ client' = clientsCreated + 1
  /\ storeLog' = storeLog \cup {"client"}
  /\ pc' = "find0"
  /\ UNCHANGED <<script, collection, inputVars, cache, query, estimated_count, cursorVars,
                 writerVars, resultVars, oldVars, ui, storeError, streamedAtError, escaped,
                 pageVars>>

\* MongoClient(...) raises
Connect0Raise ==
  /\ pc = "connect0"
  /\ storeLog' = storeLog \cup {"client"}
  /\ storeError' = TRUE
  /\ Uncaught
  /\ UNCHANGED <<script, collection, inputVars, clientVars, query, estimated_count, cursorVars,
                 writerVars, resultVars, oldVars, streamedAtError, pageVars>>

Query0 ==
  IF check_btn
    THEN check_query(combine(start_date, start_time), combine(end_date, end_time))
    ELSE fetch_query(combine(start_date, start_time), combine(end_date, end_time))

\* documents = list(collection.find(query))
Find0 ==
  /\ pc = "find0"
  /\ query' = Query0
  /\ documents' = find(collection, query')
  /\ storeLog' = storeLog \cup {"find"}
  /\ pc' = "export0"
  /\ UNCHANGED <<script, collection, inputVars, clientVars, estimated_count, cursorVars,
                 writerVars, resultVars, file, ui, storeError, streamedAtError, escaped,
                 pageVars>>

\* find or the drain of its cursor raises; nothing catches it
Find0Raise ==
  /\ pc = "find0"
  /\ query' = Query0
  /\ storeLog' = storeLog \cup {"find"}
  /\ storeError' = TRUE
  /\ Uncaught
  /\ UNCHANGED <<script, collection, inputVars, clientVars, estimated_count, cursorVars,
                 writerVars, resultVars, oldVars, streamedAtError, pageVars>>

StringifyAll(docs) == [i \in 1..Len(docs) |-> Stringify(docs[i])]

\* "if documents:" of the pressed button: header from documents[0], then the
\* rows; Check fills an in-memory buffer offered for download, Fetch writes
\* a file on the server
Export0 ==
  /\ pc = "export0"
  /\ IF documents = <<>>
       THEN /\ ui' = ui \cup {"no_data"}
            /\ pc' = "idle"
            /\ UNCHANGED <<headers, writer, buffer, file, csv_data, ret_count, escaped>>
       ELSE LET docs == StringifyAll(documents)
                hdrs == keys(docs[1])
                w    == writerows(writeheader(<<>>, hdrs), hdrs, docs)
            IN /\ headers' = hdrs
               /\ writer' = TRUE
               /\ IF check_btn
                    THEN buffer' = w.sink /\ UNCHANGED file
                    ELSE file' = w.sink /\ UNCHANGED buffer
               /\ IF w.raised
                    THEN /\ Uncaught
                         /\ UNCHANGED <<csv_data, ret_count>>
                    ELSE /\ ui' = ui \cup (IF check_btn THEN {"download", "success"} ELSE {"success"})
                         /\ csv_data' = IF check_btn THEN w.sink ELSE <<>>
                         /\ ret_count' = Len(documents)
                         /\ pc' = "idle"
                         /\ UNCHANGED escaped
  /\ UNCHANGED <<script, collection, inputVars, clientVars, query, estimated_count, cursorVars,
                 headers_written, count, batch, documents, storeLog, storeError,
                 streamedAtError, pageVars>>

----------------------------------------------------------------------------
Next ==
  \/ Processing1
  \/ Connect1
  \/ Connect1Raise
  \/ Count1
  \/ Count1Raise
  \/ OpenCursor1
  \/ OpenCursor1Raise
  \/ Iterate1
  \/ Iterate1Raise
  \/ Finish1
  \/ Except1
  \/ Render1
  \/ Processing0
  \/ Connect0
  \/ Connect0Raise
  \/ Find0
  \/ Find0Raise
  \/ Export0

Spec == Init /\ [][Next]_vars

----------------------------------------------------------------------------
(* Bulk exports: Navy_Dashboard1.py right after the connection step of a   *)
(* run whose window holds the whole collection.                            *)

BulkDocs(n) == [i \in 1..n |-> Sample(i, 1, 1, i % 4)]

BulkSizes ==
  {0, 1, 2, batch_size - 1, batch_size, batch_size + 1, 2 * batch_size - 1, 2 * batch_size, MaxBulk}

InitBulk ==
  /\ script = "Navy_Dashboard1"
  /\ collection \in {BulkDocs(n) : n \in BulkSizes}
  /\ start_date = 1 /\ start_time = 0 /\ end_date = 2 /\ end_time = 1
  /\ check_btn \in BOOLEAN /\ fetch_btn = ~check_btn
  /\ performance_mode \in Modes
  /\ pc = IF performance_mode = "Auto" THEN "count" ELSE "export"
  /\ cache = 1 /\ client = 1 /\ clientsCreated = 1
  /\ query = build_optimized_query(combine(1, 0), combine(2, 1), check_btn)
  /\ estimated_count = 0
  /\ cursorDocs = <<>> /\ cursorPos = 0 /\ cursorOpened = FALSE /\ cursorClosed = FALSE
  /\ buffer = <<>> /\ writer = FALSE /\ headers = <<>> /\ headers_written = FALSE
  /\ count = 0 /\ batch = <<>>
  /\ csv_data = <<>> /\ ret_count = 0
  /\ documents = <<>> /\ file = <<>>
  /\ ui = {} /\ storeLog = {"client"} /\ storeError = FALSE /\ streamedAtError = 0
  /\ escaped = FALSE
  /\ PageIdle

NextBulk ==
  \/ Count1
  \/ OpenCursor1
  \/ Iterate1
  \/ Finish1
  \/ Render1

SpecBulk == InitBulk /\ [][NextBulk]_vars

----------------------------------------------------------------------------
(* PaginationController (spec section 4.5)                                 *)

Unknown == 0 - 1

PageQueries == {build_optimized_query(combine(1, 0), combine(2, 1), chk) : chk \in BOOLEAN}

\* ceil(n / page_size)
CeilDiv(n, d) == (n + d - 1) \div d

Max(a, b) == IF a > b THEN a ELSE b

TotalPages(n) == Max(1, CeilDiv(n, page_size))

\* clamp page to [0, total_pages - 1]
Clamp_noUpper(p, pages) == IF p < 0 THEN 0 ELSE p

Clamp(p, pages) == IF p < 0 THEN 0 ELSE IF p > pages - 1 THEN pages - 1 ELSE p

\* submit(query): any state -> QueryActive
submit ==
  /\ \E q \in PageQueries : pquery' = q
  /\ pstate' = "QueryActive"
  /\ current_page' = 0
  /\ total_records' = Unknown
  /\ total_pages' = Unknown
  /\ UNCHANGED dashVars

\* countResolved(n): QueryActive -> Ready
countResolved ==
  /\ pstate = "QueryActive"
  /\ \E n \in 0..MaxTotal :
       /\ total_records' = n
       /\ total_pages' = TotalPages(n)
  /\ pstate' = "Ready"
  /\ UNCHANGED <<pquery, current_page, dashVars>>

\* goTo(page): Ready -> Ready
goTo ==
  /\ pstate = "Ready"
  /\ \E p \in (0 - 1)..(CeilDiv(MaxTotal, page_size) + 1) :
       current_page' = Clamp(p, total_pages)
  /\ UNCHANGED <<pstate, pquery, total_records, total_pages, dashVars>>

\* next(): goTo(current + 1), a no-op on the last page
next ==
  /\ pstate = "Ready"
  /\ current_page' = Clamp(current_page + 1, total_pages)
  /\ UNCHANGED <<pstate, pquery, total_records, total_pages, dashVars>>

\* prev(): goTo(current - 1), a no-op on the first page
prev ==
  /\ pstate = "Ready"
  /\ current_page' = Clamp(current_page - 1, total_pages)
  /\ UNCHANGED <<pstate, pquery, total_records, total_pages, dashVars>>

InitPage ==
  /\ script = "Navy_Dashboard1"
  /\ collection = CollUniform
  /\ Idle
  /\ PageIdle

NextPage ==
  \/ submit
  \/ countResolved
  \/ goTo
  \/ next
  \/ prev

SpecPage == InitPage /\ [][NextPage]_vars

----------------------------------------------------------------------------
(* Properties                                                              *)

D1 == script = "Navy_Dashboard1"
Pressed == check_btn \/ fetch_btn
RunOver == Pressed /\ pc = "idle"

\* the records the store handed to the export of the current run
Matched == IF D1 THEN cursorDocs ELSE documents

\* the rows the export produced
Produced == IF D1 \/ check_btn THEN csv_data ELSE file

\* end date before start date, or end date-time not after start date-time
InvalidInputs ==
  \/ end_date < start_date
  \/ end_date = start_date /\ end_time <= start_time

\* C1: a Check or Fetch run whose end date is before its start date, or
\* whose end date-time is not after its start date-time, shows the
\* validation error and makes no store access (no client, no count, no
\* find, no cursor) in either script.
C1_ValidationBeforeStore ==
  (Pressed /\ InvalidInputs) =>
     /\ pc = "idle"
     /\ ui \in {{"error_end_date"}, {"error_end_datetime"}}
     /\ (end_date < start_date <=> ui = {"error_end_date"})
     /\ storeLog = {}
     /\ client = 0
     /\ ~cursorOpened
     /\ query = NoQuery

C1_Witness ==
  /\ Pressed
  /\ end_date = start_date /\ end_time = start_time
  /\ ui = {"error_end_datetime"}
  /\ cache # 0

\* C2: in Navy_Dashboard1.py, when the store raises during the export
\* after at least one record was streamed, stream_data_to_csv returns the
\* empty payload and count 0, the database error is shown, and no download
\* and no success message is rendered at any point of the run.
C2_MidStreamAbort ==
  (D1 /\ storeError /\ streamedAtError >= 1) =>
     /\ "download" \notin ui
     /\ "success" \notin ui
     /\ pc \in {"render", "idle"} => /\ ret_count = 0
                                      /\ csv_data = <<>>
                                      /\ "database_error" \in ui

C2_Witness ==
  /\ D1 /\ storeError /\ streamedAtError >= 2
  /\ Len(buffer) >= 1
  /\ pc = "idle"
  /\ "database_error" \in ui

\* C3: the "no data in range" outcome is never rendered by a run in which
\* a store error occurred.
C3_NoDataOnlyWithoutError ==
  "no_data" \in ui => ~storeError

\* C4: once the export has returned, a cursor it opened has been closed.
C4_CursorClosedOnReturn ==
  (D1 /\ pc \in {"render", "idle"} /\ cursorOpened) => cursorClosed

\* the cells of a record whose fields are the header's fields, identity as text
ExpectedCells(doc) ==
  [j \in 1..Len(doc) |-> IF doc[j].key = "_id" THEN StrVal(doc[j].val.v) ELSE doc[j].val]

FieldNames(doc) == [j \in 1..Len(doc) |-> doc[j].key]

HeaderAndRows(n) ==
  /\ Len(csv_data) = n + 1
  /\ csv_data[1].row = "header"
  /\ \A i \in 1..n :
        /\ csv_data[i + 1].row = "data"
        /\ csv_data[i + 1].cells = ExpectedCells(cursorDocs[i])

\* C5 as stated: for every N >= 0 an error-free export of N records with a
\* common field set returns count N and a header row followed by N rows.
C5_Original ==
  (RunOver /\ ~storeError) =>
     /\ ret_count = Len(cursorDocs)
     /\ HeaderAndRows(Len(cursorDocs))

\* C5 amended: for N >= 1 the export returns count N and one header row (the
\* first record's field names) followed by the N records' rows in cursor
\* order; for N = 0 it returns count 0 and an empty payload without header.
C5_HeaderAndRows ==
  (RunOver /\ ~storeError) =>
     /\ ret_count = Len(cursorDocs)
     /\ Len(cursorDocs) >= 1 => /\ HeaderAndRows(Len(cursorDocs))
                                /\ csv_data[1].cells = FieldNames(cursorDocs[1])
     /\ Len(cursorDocs) = 0 => csv_data = <<>>

C5_Witness ==
  /\ RunOver
  /\ Len(cursorDocs) = 2 * batch_size
  /\ ret_count = 2 * batch_size
  /\ Len(csv_data) = 2 * batch_size + 1

\* the row of a record under a fixed header: header fields the record lacks
\* are empty, fields outside the header are left out
RowUnder(hdr, doc) ==
  [j \in 1..Len(hdr) |->
     IF \E k \in 1..Len(doc) : doc[k].key = hdr[j]
       THEN LET k == CHOOSE k \in 1..Len(doc) : doc[k].key = hdr[j]
            IN IF hdr[j] = "_id" THEN StrVal(doc[k].val.v) ELSE doc[k].val
       ELSE StrVal(<<>>)]

\* C6: an export whose records have differing field sets completes with
\* the header of the first record and one row per record, extra fields
\* dropped and missing fields empty.
C6_MixedFieldsExport ==
  (RunOver /\ "find" \in storeLog /\ ~storeError /\ Matched # <<>>) =>
     /\ "success" \in ui
     /\ ret_count = Len(Matched)
     /\ Len(Produced) = Len(Matched) + 1
     /\ Produced[1].cells = FieldNames(Matched[1])
     /\ \A i \in 1..Len(Matched) :
           Produced[i + 1].cells = RowUnder(FieldNames(Matched[1]), Matched[i])

\* C7: no store failure leaves the script as a raw exception.
C7_NoRawStoreException ==
  storeError => (~escaped /\ "exception" \notin ui)

\* C8: at most one store client is ever created.
C8_SingleClient ==
  clientsCreated <= 1

\* position of a timestamp on the time line
Chrono(x) == x[1] * (MaxTime + 1) + x[2]

InWindow(doc) ==
  /\ \E k \in 1..Len(doc) : doc[k].key = "timestamp"
  /\ LET ts == doc[CHOOSE k \in 1..Len(doc) : doc[k].key = "timestamp"].val.v
     IN /\ Chrono(<<start_date, start_time>>) <= Chrono(ts)
        /\ Chrono(ts) <= Chrono(<<end_date, end_time>>)

InBand(doc) ==
  /\ \E k \in 1..Len(doc) : doc[k].key = "Genset_Run_SS"
  /\ LET ss == doc[CHOOSE k \in 1..Len(doc) : doc[k].key = "Genset_Run_SS"].val.v[1]
     IN 0 <= ss /\ ss <= 2

\* C9: the records a run reads are exactly the records of the collection
\* whose timestamp lies in [start, end]; a Check run keeps of these exactly
\* the ones with Genset_Run_SS in [0, 2], a Fetch run keeps them all.
C9_QueryResult ==
  ("find" \in storeLog /\ ~storeError) =>
     Matched = SelectSeq(collection, LAMBDA d : InWindow(d) /\ (check_btn => InBand(d)))

C9_Witness ==
  /\ check_btn /\ "find" \in storeLog /\ ~storeError
  /\ collection = CollUniform
  /\ start_date = 1 /\ start_time = 0 /\ end_date = 2 /\ end_time = 1
  /\ Len(Matched) = 3

\* C10: once total_pages is known the page index lies in
\* [0, total_pages - 1], and total_pages changes only when a query is
\* submitted or its count is resolved, never on goTo, next or prev.
C10_PageInRange ==
  /\ [](pstate = "Ready" => (0 <= current_page /\ current_page <= total_pages - 1))
  /\ [][total_pages' # total_pages =>
          \/ pstate' = "QueryActive"
          \/ pstate = "QueryActive" /\ pstate' = "Ready"]_vars

C10_Witness ==
  /\ pstate = "Ready"
  /\ total_records = 250
  /\ total_pages = 3
  /\ current_page = 2

====
